---------------------------- MODULE Spec2Model ----------------------------
(***************************************************************************)
(* A model of scripts/streamlit_app.py: the Google Play dashboard.         *)
(*                                                                         *)
(* One run of the script is one render: load_data() (memoized by           *)
(* st.cache_data), the paid_apps subset, then the section picked in the    *)
(* sidebar.  The CSV file on disk belongs to the environment and may       *)
(* change between renders.                                                 *)
(*                                                                         *)
(* Text is a sequence of one-character strings, so that the string         *)
(* operations of the script (replace, strip, startswith, contains, the     *)
(* numeric and the date parse) are computed and not assumed.               *)
(*                                                                         *)
(* A number is kept as whole units and hundredths (n + f/100): prices are  *)
(* dollars and cents, ratings have one or two decimals, installs and       *)
(* reviews are counts.  A cell of a table is a record                      *)
(*    [k |-> "na" | "num" | "str" | "date", n, f, s]                       *)
(* "na" is pandas' NaN/NaT, "date" holds n = year*10000 + month*100 + day. *)
(***************************************************************************)
EXTENDS Integers, Sequences, FiniteSets, TLC

VARIABLES
    file,       \* google_playstore.csv on disk: [exists, cols, rows]
    cache,      \* st.cache_data's entry for load_data(): [hit, table, msg]
    edits,      \* number of changes made to the file so far
    pc,         \* position of the script run: "idle", "loaded", "done"
    df,         \* the script's global df
    paid_apps,  \* the script's global paid_apps
    msg,        \* what load_data() reported with st.error in this render
    section,    \* the sidebar's choice in this render
    clock,      \* the UTC minute of the day read by the section's gate
    view        \* what the section computed and drew

vars == <<file, cache, edits, pc, df, paid_apps, msg, section, clock, view>>

---------------------------------------------------------------------------
(* Text *)

Digits == <<"0", "1", "2", "3", "4", "5", "6", "7", "8", "9">>
UpperCase == <<"A", "B", "C", "D", "E", "F", "G", "H", "I", "J", "K", "L", "M",
               "N", "O", "P", "Q", "R", "S", "T", "U", "V", "W", "X", "Y", "Z">>
LowerCase == <<"a", "b", "c", "d", "e", "f", "g", "h", "i", "j", "k", "l", "m",
               "n", "o", "p", "q", "r", "s", "t", "u", "v", "w", "x", "y", "z">>

Range(s) == {s[i] : i \in 1..Len(s)}

\* every character a cell of the CSV file holds
Chars == Range(Digits) \cup Range(UpperCase) \cup Range(LowerCase) \cup {" ", ",", "+", "$", ".", "-"}

IndexIn(c, alphabet) ==
    LET hits == {i \in 1..Len(alphabet) : alphabet[i] = c}
    IN  IF hits = {} THEN 0 ELSE CHOOSE i \in hits : TRUE

DigitIndex == [c \in Chars |-> IndexIn(c, Digits)]

IsDigit(c) == DigitIndex[c] > 0
DigitVal(c) == DigitIndex[c] - 1

\* str.lower() on one character
LowerTable ==
    [c \in Chars |-> IF IndexIn(c, UpperCase) > 0 THEN LowerCase[IndexIn(c, UpperCase)] ELSE c]

LowerChar(c) == LowerTable[c]
Lower(s) == [i \in 1..Len(s) |-> LowerChar(s[i])]

\* the code point order of the characters: punctuation, digits, upper case, lower case
CharOrdTable ==
    [c \in Chars |->
        IF IndexIn(c, Digits) > 0 THEN 47 + IndexIn(c, Digits)
        ELSE IF IndexIn(c, UpperCase) > 0 THEN 64 + IndexIn(c, UpperCase)
        ELSE IF IndexIn(c, LowerCase) > 0 THEN 96 + IndexIn(c, LowerCase)
        ELSE 32 + IndexIn(c, <<" ", "!", "#", "$", "%", "&", "(", ")", "*", "+", ",", "-", ".">>)]

CharOrd(c) == CharOrdTable[c]

RECURSIVE StrLess(_, _)
StrLess(a, b) ==
    IF b = <<>> THEN FALSE
    ELSE IF a = <<>> THEN TRUE
    ELSE IF CharOrd(Head(a)) # CharOrd(Head(b)) THEN CharOrd(Head(a)) < CharOrd(Head(b))
    ELSE StrLess(Tail(a), Tail(b))

StartsWith(s, p) == Len(s) >= Len(p) /\ SubSeq(s, 1, Len(p)) = p
StartsWithAny(s, prefixes) == \E p \in prefixes : StartsWith(s, p)

\* str.replace(pat, rep, regex=False)
RECURSIVE Replace(_, _, _)
Replace(s, pat, rep) ==
    IF s = <<>> THEN <<>>
    ELSE IF StartsWith(s, pat) THEN rep \o Replace(SubSeq(s, Len(pat) + 1, Len(s)), pat, rep)
    ELSE <<Head(s)>> \o Replace(Tail(s), pat, rep)

\* str.strip()
RECURSIVE Strip(_)
Strip(s) ==
    IF s = <<>> THEN <<>>
    ELSE IF Head(s) = " " THEN Strip(Tail(s))
    ELSE IF s[Len(s)] = " " THEN Strip(SubSeq(s, 1, Len(s) - 1))
    ELSE s

\* str.contains(c, case=False) for a one-letter pattern
ContainsNoCase(s, c) == \E i \in 1..Len(s) : LowerChar(s[i]) = LowerChar(c)

---------------------------------------------------------------------------
(* Cells and numbers *)

NA == [k |-> "na", n |-> 0, f |-> 0, s |-> <<>>]
Num(n, f) == [k |-> "num", n |-> n, f |-> f, s |-> <<>>]
Str(s) == [k |-> "str", n |-> 0, f |-> 0, s |-> s]
Date(y, m, d) == [k |-> "date", n |-> y * 10000 + m * 100 + d, f |-> 0, s |-> <<>>]

IsNA(c) == c.k = "na"

RECURSIVE DigitsVal(_)
DigitsVal(s) == IF s = <<>> THEN 0 ELSE DigitsVal(SubSeq(s, 1, Len(s) - 1)) * 10 + DigitVal(s[Len(s)])

AllDigits(s) == \A i \in 1..Len(s) : IsDigit(s[i])

\* pd.to_numeric(..., errors="coerce") on one text: digits, or digits "." one or
\* two digits; anything else (also the text "nan") is NaN
ToNumeric(s) ==
    LET dots == {i \in 1..Len(s) : s[i] = "."}
    IN  IF s # <<>> /\ AllDigits(s) THEN Num(DigitsVal(s), 0)
        ELSE IF Cardinality(dots) = 1
        THEN LET i == CHOOSE j \in dots : TRUE
                 whole == SubSeq(s, 1, i - 1)
                 frac == SubSeq(s, i + 1, Len(s))
             IN  IF whole # <<>> /\ AllDigits(whole) /\ AllDigits(frac) /\ Len(frac) \in 1..2
                 THEN Num(DigitsVal(whole),
                          IF Len(frac) = 1 THEN DigitsVal(frac) * 10 ELSE DigitsVal(frac))
                 ELSE NA
        ELSE NA

\* Series.fillna(0.0)
FillNa0(c) == IF IsNA(c) THEN Num(0, 0) ELSE c

\* Series.astype(str) on a cell read as text: NaN becomes the text "nan"
AsType_str(c) == IF IsNA(c) THEN <<"n", "a", "n">> ELSE c.s

\* a * b for two numbers, to the hundredth
Mul(a, b) ==
    LET low == a.f * b.n + a.n * b.f + (a.f * b.f) \div 100
    IN  Num(a.n * b.n + low \div 100, low % 100)

Add(a, b) == Num(a.n + b.n + (a.f + b.f) \div 100, (a.f + b.f) % 100)

Greater(a, n) == a.k = "num" /\ (a.n > n \/ (a.n = n /\ a.f > 0))

\* pd.to_datetime(..., errors="coerce") on one text: YYYY-MM-DD, else NaT
ToDatetime(s) ==
    IF /\ Len(s) = 10
       /\ s[5] = "-" /\ s[8] = "-"
       /\ AllDigits(SubSeq(s, 1, 4)) /\ AllDigits(SubSeq(s, 6, 7)) /\ AllDigits(SubSeq(s, 9, 10))
       /\ DigitsVal(SubSeq(s, 6, 7)) \in 1..12
       /\ DigitsVal(SubSeq(s, 9, 10)) \in 1..31
    THEN Date(DigitsVal(SubSeq(s, 1, 4)), DigitsVal(SubSeq(s, 6, 7)), DigitsVal(SubSeq(s, 9, 10)))
    ELSE NA

---------------------------------------------------------------------------
(* Tables *)

\* pd.DataFrame(): no columns, no rows
EmptyFrame == [cols |-> {}, rows |-> <<>>]

\* DataFrame.empty
Empty(t) == t.cols = {} \/ t.rows = <<>>

TextFields == {"App", "Category", "Installs", "Price", "Reviews", "Rating", "Last Updated"}

\* df[mask]: the rows that pass, each with the index label it had
Where(t, Keep(_)) == [t EXCEPT !.rows = SelectSeq(t.rows, Keep)]

\* the record field that holds a column
FieldOf(c) == IF c = "Last Updated" THEN "LastUpdated" ELSE c

Column(t, c) == [i \in 1..Len(t.rows) |-> t.rows[i][FieldOf(c)]]

\* df[c] = cells, a whole column at once (the column is added when new)
SetColumn(t, c, cells) ==
    [cols |-> t.cols \cup {c},
     rows |-> [i \in 1..Len(t.rows) |-> [t.rows[i] EXCEPT ![FieldOf(c)] = cells[i]]]]

RECURSIVE NatToStr(_)
NatToStr(n) == IF n < 10 THEN <<Digits[n + 1]>> ELSE NatToStr(n \div 10) \o <<Digits[(n % 10) + 1]>>

\* str() of a float64: the shortest decimal that gives the number back
FloatToStr(c) ==
    NatToStr(c.n) \o <<".">> \o
        (IF c.f % 10 = 0 THEN <<Digits[c.f \div 10 + 1]>>
         ELSE <<Digits[c.f \div 10 + 1], Digits[(c.f % 10) + 1]>>)

\* pd.read_csv's type inference on one column: when every cell that is not empty
\* is a number the column is numeric (int64 when all are whole and none is empty,
\* else float64), otherwise it is text; an empty cell is NaN either way
ReadColumn(texts) ==
    LET numeric == \A i \in 1..Len(texts) : texts[i] = <<>> \/ ToNumeric(texts[i]).k = "num"
    IN  [i \in 1..Len(texts) |->
            IF texts[i] = <<>> THEN NA
            ELSE IF numeric THEN ToNumeric(texts[i])
            ELSE Str(texts[i])]

\* Series.astype(str)
AsTypeStr(cells) ==
    LET isInt == \A i \in 1..Len(cells) : cells[i].k = "num" /\ cells[i].f = 0
    IN  [i \in 1..Len(cells) |->
            IF cells[i].k = "num"
            THEN (IF isInt THEN NatToStr(cells[i].n) ELSE FloatToStr(cells[i]))
            ELSE AsType_str(cells[i])]

BlankRow(i) ==
    [idx |-> i, App |-> NA, Category |-> NA, Installs |-> NA, Price |-> NA,
     Reviews |-> NA, Rating |-> NA, LastUpdated |-> NA, Revenue |-> NA,
     Trendline |-> NA, Country |-> NA]

RECURSIVE ReadColumns(_, _, _)
ReadColumns(t, f, todo) ==
    IF todo = {} THEN t
    ELSE LET c == CHOOSE x \in todo : TRUE
             texts == [i \in 1..Len(f.rows) |-> f.rows[i][FieldOf(c)]]
         IN  ReadColumns(SetColumn(t, c, ReadColumn(texts)), f, todo \ {c})

\* pd.read_csv("google_playstore.csv"): the file's columns, rows labelled 0, 1, ...
read_csv(f) ==
    LET blank == [cols |-> {}, rows |-> [i \in 1..Len(f.rows) |-> BlankRow(i - 1)]]
    IN  ReadColumns(blank, f, f.cols)

\* pd.to_datetime(column, errors="coerce")
ToDatetimeCell(c) ==
    IF c.k = "str" THEN ToDatetime(c.s)
    ELSE IF c.k = "num" THEN Date(1970, 1, 1)
    ELSE c

\* pd.to_numeric(column, errors="coerce")
ToNumericCell(c) == IF c.k = "str" THEN ToNumeric(c.s) ELSE IF c.k = "num" THEN c ELSE NA

CleanPrice(s) == Strip(Replace(Replace(s, <<"$">>, <<>>), <<"F", "r", "e", "e">>, <<"0">>))

CleanInstalls(s) == Strip(Replace(Replace(s, <<",">>, <<>>), <<"+">>, <<>>))

\* what pd.to_numeric(...).fillna(0.0) makes of a cleaned Installs text
InstallsValue(s) == FillNa0(ToNumeric(s))

PriceValue(s) == FillNa0(ToNumeric(s))

\* the revenue as a sum
RevenueOf_sum(price, installs) == Add(price, installs)

RevenueOf(price, installs) == Mul(price, installs)

\* the body of load_data(): the table it returns and what it reports
load_data_body(f) ==
    IF ~f.exists THEN [table |-> EmptyFrame, msg |-> "not found"]
    ELSE IF ~({"Last Updated", "Price", "Installs"} \subseteq f.cols)
    THEN [table |-> EmptyFrame, msg |-> "failed to load"]
    ELSE
        LET t0 == read_csv(f)
            n == Len(t0.rows)
            t1 == SetColumn(t0, "Last Updated",
                            [i \in 1..n |-> ToDatetimeCell(t0.rows[i].LastUpdated)])
            ptxt == AsTypeStr(Column(t1, "Price"))
            t2 == SetColumn(t1, "Price", [i \in 1..n |-> PriceValue(CleanPrice(ptxt[i]))])
            itxt == AsTypeStr(Column(t2, "Installs"))
            t3 == SetColumn(t2, "Installs",
                            [i \in 1..n |-> InstallsValue(CleanInstalls(itxt[i]))])
            t4 == SetColumn(t3, "Revenue",
                            [i \in 1..n |-> RevenueOf(t3.rows[i].Price, t3.rows[i].Installs)])
        IN  [table |-> t4, msg |-> "none"]

\* @st.cache_data: the first call runs the body and stores what it returned and
\* reported; every later call returns a copy of the stored table and replays the
\* stored report.  The key holds no argument and nothing of the file.
load_data(f, c) == IF c.hit THEN [table |-> c.table, msg |-> c.msg] ELSE load_data_body(f)

IsPaid(r) == Greater(r.Price, 0)

\* paid_apps = df[df["Price"] > 0] if not df.empty else pd.DataFrame()
PaidApps(t) == IF Empty(t) THEN EmptyFrame ELSE Where(t, IsPaid)

---------------------------------------------------------------------------
(* The time gate *)

MinutesPerDay == 1440
IstOffset == 330

\* datetime.now(pytz.timezone("Asia/Kolkata")): the wall clock in UTC+5:30
NowIst(utc) ==
    LET m == (utc + IstOffset) % MinutesPerDay
    IN  [hour |-> m \div 60, minute |-> m % 60]

\* the window with its end hour included
is_ist_time_between_closed(start_hour, end_hour, utc) ==
    LET now == NowIst(utc)
    IN  [now |-> now, between |-> start_hour <= now.hour /\ now.hour <= end_hour]

is_ist_time_between(start_hour, end_hour, utc) ==
    LET now == NowIst(utc)
    IN  [now |-> now, between |-> start_hour <= now.hour /\ now.hour < end_hour]

---------------------------------------------------------------------------
(* Sorting and grouping *)

\* a group key is <<month, category>>; groupby sorts its keys: by month, then by
\* category name
KeyLess(a, b) == a[1] < b[1] \/ (a[1] = b[1] /\ StrLess(a[2], b[2]))

\* the keys of a finite set in ascending order
RECURSIVE SortedKeys(_)
SortedKeys(S) ==
    IF S = {} THEN <<>>
    ELSE LET lo == CHOOSE x \in S : \A y \in S \ {x} : KeyLess(x, y)
         IN  <<lo>> \o SortedKeys(S \ {lo})

RECURSIVE SumInstalls(_)
SumInstalls(rows) ==
    IF rows = <<>> THEN Num(0, 0) ELSE Add(Head(rows).Installs, SumInstalls(Tail(rows)))

NumLess(a, b) == a.n < b.n \/ (a.n = b.n /\ a.f < b.f)

---------------------------------------------------------------------------
(* What a section leaves on the page *)

NoView ==
    [shown |-> FALSE, warn |-> {}, error |-> "none", metrics |-> FALSE, chart |-> "none",
     top_categories |-> <<>>, selected_category |-> <<>>, agg_data |-> <<>>,
     filtered_df |-> EmptyFrame, monthly |-> <<>>, highlight_df |-> <<>>]

---------------------------------------------------------------------------
(* Revenue vs Installs *)

\* LinearRegression().fit(...).predict(...): the fitted value of a row.  The line is
\* computed in 64-bit floating point; the model keeps that a value was predicted.
Predicted(r) == [k |-> "fit", n |-> 0, f |-> 0, s |-> <<>>]

RevenueView(d, paid) ==
    LET warn1 == IF Empty(d) THEN {"dataset empty"} ELSE {}
        keyError == ~Empty(d) /\ "Category" \notin d.cols
        warn2 == IF Empty(paid) THEN {"no paid apps"} ELSE {}
    IN  IF keyError
        THEN [view |-> [NoView EXCEPT !.shown = TRUE, !.error = "KeyError"], paid |-> paid]
        ELSE [view |-> [NoView EXCEPT !.shown = TRUE, !.warn = warn1 \cup warn2,
                                      !.metrics = ~Empty(d),
                                      !.chart = IF Empty(paid) THEN "none" ELSE "scatter"],
              paid |-> IF Empty(paid) THEN paid
                       ELSE SetColumn(paid, "Trendline",
                                      [i \in 1..Len(paid.rows) |-> Predicted(paid.rows[i])])]

---------------------------------------------------------------------------
(* Choropleth Map *)

InstallsThreshold == 1000000
TopN == 5

MapExcluded == {<<"A">>, <<"C">>, <<"G">>, <<"S">>}

\* (df["Installs"] > 1_000_000) & (~df["Category"].str.startswith(("A", "C", "G", "S")))
MapFilter(r) ==
    Greater(r.Installs, InstallsThreshold) /\ ~StartsWithAny(r.Category.s, MapExcluded)

filtered(d) == Where(d, MapFilter)

RowsOfCategory(rows, cat) == SelectSeq(rows, LAMBDA r : r.Category.s = cat)

\* the groups ranked by their number of rows
RankValue_rowcount(rows, cat) == Num(Len(RowsOfCategory(rows, cat)), 0)

\* what the groups are ranked by: groupby("Category")["Installs"].sum()
RankValue(rows, cat) == SumInstalls(RowsOfCategory(rows, cat))

\* filtered.groupby("Category")["Installs"].sum(): one entry per category, in the
\* order of the category names
GroupByCategory(rows) ==
    LET keys == SortedKeys({<<0, rows[i].Category.s>> : i \in 1..Len(rows)})
    IN  [i \in 1..Len(keys) |-> [Category |-> keys[i][2], value |-> RankValue(rows, keys[i][2])]]

\* Series.nlargest(n): the n largest values, largest first; equal values stay in
\* the order they had (keep="first")
RECURSIVE NLargest(_, _)
NLargest(groups, n) ==
    IF n = 0 \/ groups = <<>> THEN <<>>
    ELSE LET best == CHOOSE i \in 1..Len(groups) :
                        /\ \A j \in 1..Len(groups) : ~NumLess(groups[i].value, groups[j].value)
                        /\ \A j \in 1..(i - 1) : NumLess(groups[j].value, groups[i].value)
             rest == [j \in 1..(Len(groups) - 1) |->
                         IF j < best THEN groups[j] ELSE groups[j + 1]]
         IN  <<groups[best]>> \o NLargest(rest, n - 1)

\* the index of the top groups: the category names
top_categories(f) ==
    LET top == NLargest(GroupByCategory(f.rows), TopN)
    IN  [i \in 1..Len(top) |-> top[i].Category]

\* np.random.choice draws from this list
Countries == <<<<"U", "S", "A">>, <<"I", "N", "D">>, <<"G", "B", "R">>,
               <<"C", "A", "N">>, <<"A", "U", "S">>>>

\* filtered[filtered["Category"].isin(top_categories)] with its "Country" column,
\* country[i] being the code drawn for the i-th row
\* filtered[filtered["Category"].isin(top_categories)]
filtered_top(f, top) == Where(f, LAMBDA r : r.Category.s \in Range(top))

\* the rows of the selected category with their "Country" column, country[i] being
\* the code np.random.choice drew for the i-th of them (the codes drawn for the
\* other rows of filtered_top are never read)
SelectedRows(ft, selected, country) ==
    LET sel == Where(ft, LAMBDA r : r.Category.s = selected)
    IN  SetColumn(sel, "Country", [i \in 1..Len(sel.rows) |-> Str(country[i])])

\* .groupby("Country", as_index=False)["Installs"].sum()
agg_data(sel) ==
    LET rows == sel.rows
        keys == SortedKeys({<<0, rows[i].Country.s>> : i \in 1..Len(rows)})
        of(c) == SelectSeq(rows, LAMBDA r : r.Country.s = c)
    IN  [i \in 1..Len(keys) |-> [Country |-> keys[i][2], Installs |-> SumInstalls(of(keys[i][2]))]]

---------------------------------------------------------------------------
(* Time Series Chart *)

required_columns == {"App", "Category", "Reviews", "Rating", "Last Updated", "Installs"}

ReviewsThreshold == 500
GrowthThreshold == 20

\* df["Reviews"] = pd.to_numeric(df["Reviews"], errors="coerce"), and "Rating" alike
CoerceReviewsRating(d) ==
    LET n == Len(d.rows)
        d1 == SetColumn(d, "Reviews", [i \in 1..n |-> ToNumericCell(d.rows[i].Reviews)])
    IN  SetColumn(d1, "Rating", [i \in 1..n |-> ToNumericCell(d1.rows[i].Rating)])

\* df.dropna(subset=["Reviews", "Rating", "App", "Category", "Last Updated", "Installs"])
DropnaSubset == {"Reviews", "Rating", "App", "Category", "LastUpdated", "Installs"}

NoneMissing(r) == \A c \in DropnaSubset : ~IsNA(r[c])

df_cleaned(d) == Where(d, NoneMissing)

\* the filter of the draft that asks for a rating above 4.0 instead of the name rules
SeriesFilter_rating(r) ==
    /\ Greater(r.Reviews, ReviewsThreshold)
    /\ Greater(r.Rating, 4)
    /\ StartsWithAny(r.Category.s, {<<"E">>, <<"C">>, <<"B">>})

SeriesFilter(r) ==
    /\ Greater(r.Reviews, ReviewsThreshold)
    /\ ~StartsWithAny(Lower(r.App.s), {<<"x">>, <<"y">>, <<"z">>})
    /\ ~ContainsNoCase(r.App.s, "s")
    /\ StartsWithAny(r.Category.s, {<<"E">>, <<"C">>, <<"B">>})

\* Series.replace(translations): the Hindi and the Tamil word are written here in
\* Latin letters; all three sort after every English category name, as they do in
\* the script
Translate(cat) ==
    IF cat = <<"B", "e", "a", "u", "t", "y">> THEN <<"s", "a", "u", "n", "d", "a", "r", "y", "a">>
    ELSE IF cat = <<"B", "u", "s", "i", "n", "e", "s", "s">> THEN <<"v", "a", "n", "i", "k", "a", "m">>
    ELSE IF cat = <<"D", "a", "t", "i", "n", "g">>
    THEN <<"P", "a", "r", "t", "n", "e", "r", "s", "u", "c", "h", "e">>
    ELSE cat

\* filtered_df: the filter, the translation, the second date parse and its dropna
filtered_df(d) ==
    LET kept == Where(df_cleaned(d), SeriesFilter)
        n == Len(kept.rows)
        named == SetColumn(kept, "Category",
                           [i \in 1..n |-> Str(Translate(kept.rows[i].Category.s))])
        dated == SetColumn(named, "Last Updated",
                           [i \in 1..n |-> ToDatetimeCell(named.rows[i].LastUpdated)])
    IN  Where(dated, LAMBDA r : ~IsNA(r.LastUpdated))

\* pd.Grouper(key="Last Updated", freq="M"): the month of a date, year*100 + month
MonthOf(c) == c.n \div 100

\* the growth of a month: NaN without a previous month; otherwise the quotient
\* (Installs - Previous) / Previous * 100 of 64-bit floats, which is +inf for x/0 with
\* x > 0, NaN for 0/0, and else the number 100 * num / den, with num / den the
\* fraction (Installs - Previous) / Previous (in units when both are whole, else in
\* hundredths)
Growth(installs, previous) ==
    LET whole == installs.f = 0 /\ previous.f = 0
        diff == IF whole THEN installs.n - previous.n
                ELSE (installs.n - previous.n) * 100 + (installs.f - previous.f)
        prev == IF whole THEN previous.n ELSE previous.n * 100 + previous.f
    IN  IF previous.k = "na" THEN [k |-> "nan", num |-> 0, den |-> 1]
        ELSE IF prev = 0
        THEN (IF diff > 0 THEN [k |-> "inf", num |-> 1, den |-> 0]
              ELSE [k |-> "nan", num |-> 0, den |-> 1])
        ELSE [k |-> "num", num |-> diff, den |-> prev]

\* monthly["Growth"] > pct: false for NaN, true for +inf
GrowthAbove(g, pct) ==
    \/ g.k = "inf"
    \/ g.k = "num" /\ 100 * g.num > pct * g.den

\* monthly: Installs summed per month and category, in the order of the keys, with
\* Previous = the category's value one row earlier (groupby("Category").shift(1))
monthly(fd) ==
    LET rows == fd.rows
        keys == SortedKeys({<<MonthOf(rows[i].LastUpdated), rows[i].Category.s>> :
                                i \in 1..Len(rows)})
        sum(key) == SumInstalls(SelectSeq(rows,
                        LAMBDA r : MonthOf(r.LastUpdated) = key[1] /\ r.Category.s = key[2]))
        prev(i) == LET earlier == {j \in 1..(i - 1) : keys[j][2] = keys[i][2]}
                   IN  IF earlier = {} THEN NA
                       ELSE sum(keys[CHOOSE j \in earlier : \A l \in earlier : l <= j])
    IN  [i \in 1..Len(keys) |->
            [Month |-> keys[i][1], Category |-> keys[i][2], Installs |-> sum(keys[i]),
             Previous |-> prev(i), Growth |-> Growth(sum(keys[i]), prev(i))]]

highlight_df(m) == SelectSeq(m, LAMBDA r : GrowthAbove(r.Growth, GrowthThreshold))

---------------------------------------------------------------------------
(* The environment: the file and the clock *)

MaxRows == 2
MaxEdits == 1

AllColumns == TextFields

\* a file has every column, or lacks one
ColumnSets == {AllColumns} \cup {AllColumns \ {c} : c \in AllColumns}

T_Foo == <<"F", "o", "o">>
T_Bar == <<"B", "a", "r">>
T_Xyzapp == <<"X", "y", "z", "a", "p", "p">>
T_Quiz == <<"Q", "u", "i", "z">>
T_Education == <<"E", "d", "u", "c", "a", "t", "i", "o", "n">>
T_Action == <<"A", "c", "t", "i", "o", "n">>
T_Casual == <<"C", "a", "s", "u", "a", "l">>
T_Business == <<"B", "u", "s", "i", "n", "e", "s", "s">>
T_Free == <<"F", "r", "e", "e">>
T_abc == <<"a", "b", "c">>
T_600 == <<"6", "0", "0">>
T_10 == <<"1", "0">>
T_3M == <<"3", ".", "0", "M">>
T_Mar15 == <<"2", "0", "2", "1", "-", "0", "3", "-", "1", "5">>
T_Apr01 == <<"2", "0", "2", "1", "-", "0", "4", "-", "0", "1">>
T_May02 == <<"2", "0", "2", "1", "-", "0", "5", "-", "0", "2">>

RawRow(app, category, installs, price, reviews, rating, updated) ==
    [App |-> app, Category |-> category, Installs |-> installs, Price |-> price,
     Reviews |-> reviews, Rating |-> rating, LastUpdated |-> updated]

\* the rows a file of the main specification is made of
SampleRows ==
    { RawRow(T_Foo, T_Education, <<"1", ",", "5", "0", "0", ",", "0", "0", "0", "+">>,
             <<"$", "0", ".", "9", "9">>, T_600, <<"4", ".", "5">>, T_Mar15),
      RawRow(T_Bar, T_Action, <<"2", ",", "0", "0", "0", ",", "0", "0", "0", "+">>,
             T_Free, T_10, <<"3", ".", "9">>, T_Apr01),
      RawRow(T_Xyzapp, T_Casual, T_abc, <<"$", "4", ".", "9", "9">>, T_3M, <<>>, T_abc),
      RawRow(T_Quiz, T_Business, T_Free, <<"$", "1", ".", "9", "9">>, T_600, <<"4", ".", "5">>,
             T_May02) }

\* a row as a file with the columns cols holds it
Project(r, cols) ==
    [c \in DOMAIN r |-> IF \E x \in cols : FieldOf(x) = c THEN r[c] ELSE <<>>]

RowLists(rows, n) == UNION {[1..k -> rows] : k \in 0..n}

NoFile == [exists |-> FALSE, cols |-> {}, rows |-> <<>>]

Files(rows, n) ==
    {NoFile} \cup
    {[exists |-> TRUE, cols |-> cols, rows |-> [i \in 1..Len(l) |-> Project(l[i], cols)]] :
        cols \in ColumnSets, l \in RowLists(rows, n)}

\* the UTC minutes of the day at which a gate reads the clock: 17:59, 18:00, 19:59,
\* 20:00, 20:59, 21:00, 00:30 and 03:00 in UTC+5:30
ClockSamples == {749, 750, 869, 870, 929, 930, 1140, 1290}

NoCache == [hit |-> FALSE, table |-> EmptyFrame, msg |-> "none"]

Idle ==
    /\ pc = "idle"
    /\ df = EmptyFrame
    /\ paid_apps = EmptyFrame
    /\ msg = "none"
    /\ section = "none"
    /\ clock = 0
    /\ view = NoView

Init ==
    /\ file \in Files(SampleRows, MaxRows)
    /\ cache = NoCache
    /\ edits = 0
    /\ Idle

\* a row is appended to the file
AppendRow ==
    /\ pc = "idle" /\ edits < MaxEdits
    /\ file.exists /\ Len(file.rows) < MaxRows
    /\ \E r \in SampleRows :
          file' = [file EXCEPT !.rows = Append(file.rows, Project(r, file.cols))]
    /\ edits' = edits + 1
    /\ UNCHANGED <<cache, pc, df, paid_apps, msg, section, clock, view>>

\* the file is removed
RemoveFile ==
    /\ pc = "idle" /\ edits < MaxEdits
    /\ file.exists
    /\ file' = NoFile
    /\ edits' = edits + 1
    /\ UNCHANGED <<cache, pc, df, paid_apps, msg, section, clock, view>>

\* the file is created, with a header and one row
CreateFile ==
    /\ pc = "idle" /\ edits < MaxEdits
    /\ ~file.exists
    /\ \E cols \in ColumnSets, r \in SampleRows :
          file' = [exists |-> TRUE, cols |-> cols, rows |-> <<Project(r, cols)>>]
    /\ edits' = edits + 1
    /\ UNCHANGED <<cache, pc, df, paid_apps, msg, section, clock, view>>

---------------------------------------------------------------------------
(* One run of the script *)

\* lines 24-65: df = load_data() and paid_apps
StartRender ==
    /\ pc = "idle"
    /\ LET r == load_data(file, cache)
       IN  /\ cache' = [hit |-> TRUE, table |-> r.table, msg |-> r.msg]
           /\ df' = r.table
           /\ paid_apps' = PaidApps(r.table)
           /\ msg' = r.msg
    /\ pc' = "loaded"
    /\ UNCHANGED <<file, edits, section, clock, view>>

\* the sections that only write text
ViewHome ==
    /\ pc = "loaded"
    /\ section' = "Home"
    /\ view' = [NoView EXCEPT !.shown = TRUE]
    /\ pc' = "done"
    /\ UNCHANGED <<file, cache, edits, df, paid_apps, msg, clock>>

ViewContact ==
    /\ pc = "loaded"
    /\ section' = "Contact"
    /\ view' = [NoView EXCEPT !.shown = TRUE]
    /\ pc' = "done"
    /\ UNCHANGED <<file, cache, edits, df, paid_apps, msg, clock>>

ViewRevenue ==
    /\ pc = "loaded"
    /\ section' = "Revenue vs Installs"
    /\ LET r == RevenueView(df, paid_apps)
       IN  view' = r.view /\ paid_apps' = r.paid
    /\ pc' = "done"
    /\ UNCHANGED <<file, cache, edits, df, msg, clock>>

ViewMap ==
    /\ pc = "loaded"
    /\ section' = "Choropleth Map"
    /\ \E utc \in ClockSamples :
          LET gate == is_ist_time_between(18, 20, utc)
              f == filtered(df)
              top == top_categories(f)
              shown == [NoView EXCEPT !.shown = TRUE]
          IN  /\ clock' = utc
              /\ IF ~gate.between
                 THEN view' = [NoView EXCEPT !.warn = {"map only 6-8 PM"}]
                 ELSE IF "Category" \notin df.cols \/ "Installs" \notin df.cols
                 THEN view' = [shown EXCEPT !.warn = {"columns missing"}]
                 ELSE IF Empty(f)
                 THEN view' = [shown EXCEPT !.warn = {"no data after filters"}]
                 ELSE \E selected \in Range(top) :
                      \E country \in [1..Len(RowsOfCategory(filtered_top(f, top).rows, selected))
                                           -> Range(Countries)] :
                          view' = [shown EXCEPT !.top_categories = top,
                                                !.selected_category = selected,
                                                !.agg_data = agg_data(SelectedRows(
                                                    filtered_top(f, top), selected, country)),
                                                !.chart = "choropleth"]
    /\ pc' = "done"
    /\ UNCHANGED <<file, cache, edits, df, paid_apps, msg>>

ViewTimeSeries ==
    /\ pc = "loaded"
    /\ section' = "Time Series Chart"
    /\ \E utc \in ClockSamples :
          LET gate == is_ist_time_between(18, 21, utc)
              d == CoerceReviewsRating(df)
              fd == filtered_df(d)
              m == monthly(fd)
          IN  /\ clock' = utc
              /\ IF ~gate.between
                 THEN /\ view' = [NoView EXCEPT !.warn = {"series only 6-9 PM"}]
                      /\ df' = df
                 ELSE IF ~(required_columns \subseteq df.cols)
                 THEN /\ view' = [NoView EXCEPT !.shown = TRUE, !.warn = {"columns missing"}]
                      /\ df' = df
                 ELSE /\ df' = d
                      /\ view' = [NoView EXCEPT !.shown = TRUE, !.filtered_df = fd,
                                                !.monthly = m,
                                                !.highlight_df = highlight_df(m),
                                                !.chart = "line"]
    /\ pc' = "done"
    /\ UNCHANGED <<file, cache, edits, paid_apps, msg>>

\* the script has run to its end; its globals are gone until the next run
FinishRender ==
    /\ pc = "done"
    /\ pc' = "idle"
    /\ df' = EmptyFrame
    /\ paid_apps' = EmptyFrame
    /\ msg' = "none"
    /\ section' = "none"
    /\ clock' = 0
    /\ view' = NoView
    /\ UNCHANGED <<file, cache, edits>>

Next ==
    \/ AppendRow
    \/ RemoveFile
    \/ CreateFile
    \/ StartRender
    \/ ViewHome
    \/ ViewRevenue
    \/ ViewMap
    \/ ViewTimeSeries
    \/ ViewContact
    \/ FinishRender

Spec == Init /\ [][Next]_vars

---------------------------------------------------------------------------
(* The time series over tables that vary one row in every field the section reads *)

T_yoga == <<"y", "o", "g", "a">>
T_Chess == <<"C", "h", "e", "s", "s">>
T_TOYS == <<"T", "O", "Y", "S">>
T_500 == <<"5", "0", "0">>
T_100 == <<"1", "0", "0">>
T_45 == <<"4", ".", "5">>
T_39 == <<"3", ".", "9">>

GoodRow == RawRow(T_Foo, T_Education, T_100, T_Free, T_600, T_39, T_Mar15)

FilterRows ==
    { RawRow(app, category, T_100, T_Free, reviews, rating, updated) :
        app \in {T_Foo, T_Xyzapp, T_yoga, T_Chess, T_TOYS, <<>>},
        category \in {T_Education, T_Casual, T_Business, T_Action, <<>>},
        reviews \in {T_600, T_500, T_3M, <<>>},
        rating \in {T_45, T_39, <<>>},
        updated \in {T_Apr01, T_abc} }

FileOf(rows) == [exists |-> TRUE, cols |-> AllColumns, rows |-> rows]

InitFilter ==
    /\ file \in {FileOf(<<r>>) : r \in FilterRows} \cup {FileOf(<<GoodRow, r>>) : r \in FilterRows}
    /\ cache = NoCache
    /\ edits = 0
    /\ Idle

NextSeries ==
    \/ StartRender
    \/ ViewTimeSeries
    \/ FinishRender

SpecFilter == InitFilter /\ [][NextSeries]_vars

---------------------------------------------------------------------------
(* The time series over tables of three rows that pass its filter *)

GrowthRow(category, installs, updated) ==
    RawRow(T_Foo, category, installs, T_Free, T_600, T_45, updated)

GrowthRows ==
    { GrowthRow(T_Education, installs, updated) :
        installs \in {<<"0">>, T_100, <<"1", "5", "0">>, <<"9", "0">>},
        updated \in {T_Mar15, T_Apr01, T_May02} }
    \cup
    { GrowthRow(T_Business, installs, updated) :
        installs \in {<<"0">>, T_100}, updated \in {T_Mar15, T_Apr01} }

InitGrowth ==
    /\ file \in {FileOf(<<a, b, c>>) : a \in GrowthRows, b \in GrowthRows, c \in GrowthRows}
    /\ cache = NoCache
    /\ edits = 0
    /\ Idle

SpecGrowth == InitGrowth /\ [][NextSeries]_vars

---------------------------------------------------------------------------
(* The map over tables with up to nine categories *)

T_Tools == <<"T", "o", "o", "l", "s">>
T_Games == <<"G", "a", "m", "e", "s">>
T_Social == <<"S", "o", "c", "i", "a", "l">>
T_Family == <<"F", "a", "m", "i", "l", "y">>
T_Medical == <<"M", "e", "d", "i", "c", "a", "l">>
T_Weather == <<"W", "e", "a", "t", "h", "e", "r">>
T_Finance == <<"F", "i", "n", "a", "n", "c", "e">>
T_1M == <<"1", ",", "0", "0", "0", ",", "0", "0", "0", "+">>
T_1500K == <<"1", ",", "5", "0", "0", ",", "0", "0", "0", "+">>
T_5M == <<"5", ",", "0", "0", "0", ",", "0", "0", "0", "+">>

MapRow(category, installs) == RawRow(T_Foo, category, installs, T_Free, T_600, T_45, T_Mar15)

\* the rows of one category: none, or one row with one of the installs
OneOf(category, installs) == {<<>>} \cup {<<MapRow(category, i)>> : i \in installs}

MapTables ==
    { excluded \o tools \o education \o family \o medical \o weather \o finance :
        excluded \in {<<>>, <<MapRow(T_Action, T_5M), MapRow(T_Games, T_5M), MapRow(T_Social, T_5M)>>},
        tools \in OneOf(T_Tools, {T_1500K, T_5M})
                    \cup {<<MapRow(T_Tools, T_1500K), MapRow(T_Tools, T_1500K)>>},
        education \in OneOf(T_Education, {T_1M, T_5M}),
        family \in OneOf(T_Family, {T_1M, T_5M}),
        medical \in OneOf(T_Medical, {T_1M, T_5M}),
        weather \in OneOf(T_Weather, {T_1M, T_5M}),
        finance \in OneOf(T_Finance, {T_1M, T_5M}) }

InitMap ==
    /\ file \in {FileOf(rows) : rows \in MapTables}
    /\ cache = NoCache
    /\ edits = 0
    /\ Idle

NextMap ==
    \/ StartRender
    \/ ViewMap
    \/ FinishRender

SpecMap == InitMap /\ [][NextMap]_vars

---------------------------------------------------------------------------
(* The claims *)

MapSection == "Choropleth Map"
SeriesSection == "Time Series Chart"
RevenueSection == "Revenue vs Installs"

\* the local minute of the day, in UTC+5:30, of the clock read by the gate
LocalMinute == (clock + 5 * 60 + 30) % (24 * 60)

\* C1: whenever a render reads the clock, the map is visible exactly when the local
\* hour h (UTC+5:30) has 18 <= h < 20 and the time series exactly when 18 <= h < 21;
\* the map is hidden at 17:59, visible at 18:00 and 19:59, hidden at 20:00
C1_GateWindows ==
    pc = "done" =>
        /\ section = MapSection =>
              (view.shown <=> (18 * 60 <= LocalMinute /\ LocalMinute < 20 * 60))
        /\ section = SeriesSection =>
              (view.shown <=> (18 * 60 <= LocalMinute /\ LocalMinute < 21 * 60))
        /\ section = MapSection /\ LocalMinute = 17 * 60 + 59 => ~view.shown
        /\ section = MapSection /\ LocalMinute \in {18 * 60, 19 * 60 + 59} => view.shown
        /\ section = MapSection /\ LocalMinute = 20 * 60 => ~view.shown

\* the map was asked for at 20:00 and is hidden, and a render can also show it
C1_Witness ==
    /\ pc = "done" /\ section = MapSection
    /\ LocalMinute = 20 * 60 /\ ~view.shown

\* the text of an Installs cell is no base-10 integer once '+' and ',' are removed
NoInteger(text) ==
    LET t == SelectSeq(text, LAMBDA c : c \notin {"+", ","})
    IN  t = <<>> \/ \E i \in 1..Len(t) : t[i] \notin Range(Digits)

\* the render's table was loaded from the file as it is now
FreshLoad == pc = "loaded" /\ edits = 0 /\ file.exists

HasRow(t, label) == \E j \in 1..Len(t.rows) : t.rows[j].idx = label

\* C2: a row whose Installs is "Free" or no base-10 integer after removing '+' and ','
\* is absent from the table load_data returns (its Installs is missing, never 0)
C2_BadInstallsDropped ==
    FreshLoad /\ "Installs" \in file.cols =>
        \A i \in 1..Len(file.rows) :
            NoInteger(file.rows[i].Installs) => ~HasRow(df, i - 1)

\* C3: the table load_data returns has no row with a missing Installs, Price or Last
\* Updated, and no more rows than the file
C3_NoMissingMandatory ==
    FreshLoad =>
        /\ Len(df.rows) <= Len(file.rows)
        /\ \A j \in 1..Len(df.rows) :
              /\ df.rows[j].Installs.k = "num"
              /\ df.rows[j].Price.k = "num"
              /\ df.rows[j].LastUpdated.k = "date"

SchemaColumns == {"App", "Category", "Last Updated", "Installs", "Price", "Reviews"}

\* C4: with a required column absent from the file the render is fatal for every view:
\* load_data reports an error and no view computes an aggregate or draws a chart
C4_MissingColumnFatal ==
    /\ pc = "done" /\ section \in {RevenueSection, MapSection, SeriesSection}
    /\ edits = 0 /\ file.exists /\ ~(SchemaColumns \subseteq file.cols)
    =>
        /\ msg # "none"
        /\ view.chart = "none"
        /\ ~view.metrics
        /\ view.top_categories = <<>> /\ view.agg_data = <<>> /\ view.monthly = <<>>

\* C5: the table a render uses is the one derived from the file as it is at that
\* render, whatever renders and file changes came before
C5_NoStaleTable ==
    pc = "loaded" =>
        /\ df = load_data_body(file).table
        /\ msg = load_data_body(file).msg

\* C10: a view leaves the render's table as load_data returned it, and no render
\* changes the table kept in the cache
C10_ViewsKeepTable ==
    [][pc = "loaded" /\ pc' = "done" => df' = df /\ cache' = cache]_vars

Cents(x) == x.n * 100 + x.f

RevenueIsProduct(t) ==
    "Revenue" \in t.cols =>
        \A j \in 1..Len(t.rows) :
            LET r == t.rows[j]
            IN  /\ r.Revenue.k = "num" /\ r.Installs.k = "num" /\ r.Price.k = "num"
                /\ Cents(r.Revenue) = r.Installs.n * Cents(r.Price)
                                          + (r.Installs.f * Cents(r.Price)) \div 100
                /\ (r.Installs = Num(1500000, 0) /\ r.Price = Num(0, 99)
                       => r.Revenue = Num(1485000, 0))

\* C9: after cleaning, every row of the table and of the paid-apps subset (the rows
\* with Price > 0) has Revenue = Installs x Price, before and after the view has run
C9_RevenueIsProduct ==
    pc \in {"loaded", "done"} =>
        /\ RevenueIsProduct(df)
        /\ RevenueIsProduct(paid_apps)
        /\ \A j \in 1..Len(paid_apps.rows) :
              /\ Cents(paid_apps.rows[j].Price) > 0
              /\ \E i \in 1..Len(df.rows) :
                    /\ df.rows[i].idx = paid_apps.rows[j].idx
                    /\ df.rows[i].Revenue = paid_apps.rows[j].Revenue
        /\ \A i \in 1..Len(df.rows) :
              "Price" \in df.cols /\ Cents(df.rows[i].Price) > 0 => HasRow(paid_apps, df.rows[i].idx)

\* the revenue view has run over a paid app with 1,500,000 installs at 0.99
C9_Witness ==
    /\ pc = "done" /\ section = RevenueSection
    /\ view.chart = "scatter"
    /\ \E j \in 1..Len(paid_apps.rows) :
          /\ paid_apps.rows[j].Revenue = Num(1485000, 0)
          /\ paid_apps.rows[j].Trendline.k = "fit"

\* the time series was drawn
SeriesDrawn == pc = "done" /\ section = SeriesSection /\ view.chart = "line"

Flagged(r) == r \in Range(view.highlight_df)

\* the installs of the months of one category, in the order of the months
InstallsOf(cat) ==
    LET rows == SelectSeq(view.monthly, LAMBDA r : r.Category = cat)
    IN  [i \in 1..Len(rows) |-> rows[i].Installs.n]

\* C6: per category the months ascend; Growth is undefined for the first month and
\* after a month with zero installs, and a month is flagged exactly when its Growth is
\* defined and above 20; installs [100, 150, 90] give [undefined, 50, -40] with only
\* the second month flagged; a month after a zero-install month is never flagged
C6_GrowthFlags ==
    SeriesDrawn =>
        \A i \in 1..Len(view.monthly) :
            LET r == view.monthly[i]
                earlier == {j \in 1..(i - 1) : view.monthly[j].Category = r.Category}
                first == earlier = {}
                afterZero == r.Previous.k = "num" /\ Cents(r.Previous) = 0
            IN  /\ \A j \in earlier : view.monthly[j].Month < r.Month
                /\ first \/ afterZero => r.Growth.k # "num" /\ ~Flagged(r)
                /\ Flagged(r) <=> (r.Growth.k = "num" /\ 100 * r.Growth.num > 20 * r.Growth.den)
                /\ InstallsOf(r.Category) = <<100, 150, 90>> =>
                      /\ r.Installs.n = 100 => r.Growth.k = "nan" /\ ~Flagged(r)
                      /\ r.Installs.n = 150 => 100 * r.Growth.num = 50 * r.Growth.den /\ Flagged(r)
                      /\ r.Installs.n = 90 => 100 * r.Growth.num = (-40) * r.Growth.den /\ ~Flagged(r)

\* a row of the table that passes the map's filter
Qualifies(r) ==
    /\ r.Installs.k = "num" /\ r.Installs.n * 100 + r.Installs.f > 1000000 * 100
    /\ r.Category.s # <<>> /\ r.Category.s[1] \notin {"A", "C", "G", "S"}

QualifyingCategories == {df.rows[i].Category.s : i \in {j \in 1..Len(df.rows) : Qualifies(df.rows[j])}}

RowCount(cat) ==
    Cardinality({i \in 1..Len(df.rows) : Qualifies(df.rows[i]) /\ df.rows[i].Category.s = cat})

RECURSIVE TotalInstalls(_, _)
TotalInstalls(rows, cat) ==
    IF rows = <<>> THEN 0
    ELSE (IF Qualifies(Head(rows)) /\ Head(rows).Category.s = cat THEN Head(rows).Installs.n ELSE 0)
             + TotalInstalls(Tail(rows), cat)

Offered == Range(view.top_categories)

Min(a, b) == IF a < b THEN a ELSE b

\* the map was drawn or found nothing to draw
MapRan == pc = "done" /\ section = MapSection /\ view.shown /\ {"Category", "Installs"} \subseteq df.cols

\* of Action, Tools, Games, Social and Education, all above 1,000,000 installs, only
\* Tools and Education are offered
MapExample ==
    (/\ {df.rows[i].Category.s : i \in 1..Len(df.rows)} =
            {T_Action, T_Tools, T_Games, T_Social, T_Education}
     /\ \A i \in 1..Len(df.rows) : df.rows[i].Installs.n > 1000000)
    => Offered = {T_Tools, T_Education}

\* C7 as claimed: the categories offered are exactly the (at most 5) categories with the
\* most rows among the rows with Installs > 1,000,000 whose Category starts with none of
\* A, C, G, S
C7_TopByRowCount ==
    MapRan =>
        /\ Offered \subseteq QualifyingCategories
        /\ Cardinality(Offered) = Min(5, Cardinality(QualifyingCategories))
        /\ \A c \in Offered, d \in QualifyingCategories \ Offered : RowCount(c) >= RowCount(d)
        /\ MapExample

\* C7 as amended: the categories offered are exactly the (at most 5) categories with the
\* highest summed Installs among those rows, largest first, a tie going to the category
\* whose name sorts first
C7_TopBySummedInstalls ==
    MapRan =>
        /\ Offered \subseteq QualifyingCategories
        /\ Cardinality(Offered) = Min(5, Cardinality(QualifyingCategories))
        /\ Len(view.top_categories) = Cardinality(Offered)
        /\ \A c \in Offered, d \in QualifyingCategories \ Offered :
              \/ TotalInstalls(df.rows, c) > TotalInstalls(df.rows, d)
              \/ TotalInstalls(df.rows, c) = TotalInstalls(df.rows, d) /\ StrLess(c, d)
        /\ \A i \in 1..Len(view.top_categories), j \in 1..Len(view.top_categories) :
              i < j => TotalInstalls(df.rows, view.top_categories[i])
                           >= TotalInstalls(df.rows, view.top_categories[j])
        /\ MapExample

\* six categories pass the filter and the one left out has more rows than one offered
C7_Witness ==
    /\ MapRan /\ view.chart = "choropleth"
    /\ Cardinality(QualifyingCategories) = 6
    /\ \E c \in Offered, d \in QualifyingCategories \ Offered : RowCount(d) > RowCount(c)

Contributes(r) == HasRow(view.filtered_df, r.idx)

\* the four conditions of the time series on a row of the table
SeriesConditions(r) ==
    /\ r.Reviews.k = "num" /\ r.Reviews.n * 100 + r.Reviews.f > 500 * 100
    /\ r.App.s = <<>> \/ r.App.s[1] \notin {"x", "y", "z", "X", "Y", "Z"}
    /\ \A i \in 1..Len(r.App.s) : r.App.s[i] \notin {"s", "S"}
    /\ r.Category.s # <<>> /\ r.Category.s[1] \in {"E", "C", "B"}

\* C8 as claimed: a row contributes to the month-by-category aggregate exactly when
\* Reviews > 500, App starts with none of x, y, z and holds no s (in either case), and
\* Category starts with E, C or B; no other field of the row matters
C8_FourConditions ==
    SeriesDrawn => \A i \in 1..Len(df.rows) : Contributes(df.rows[i]) <=> SeriesConditions(df.rows[i])

\* C8 as amended: a row contributes exactly when, besides the four conditions, none of
\* its Reviews, Rating, App, Category and Last Updated is missing (Reviews and Rating as
\* numbers, Last Updated as a date); the value of a Rating that is present does not matter
C8_ConditionsAndPresence ==
    SeriesDrawn =>
        \A i \in 1..Len(df.rows) :
            LET r == df.rows[i]
            IN  Contributes(r) <=>
                    /\ SeriesConditions(r)
                    /\ r.Rating.k = "num"
                    /\ r.App.k = "str" /\ r.Category.k = "str"
                    /\ r.LastUpdated.k = "date"

\* two rows meet the four conditions; the one rated below 4 contributes and the one
\* without a rating does not
C8_Witness ==
    /\ SeriesDrawn
    /\ \E i \in 1..Len(df.rows) :
          /\ SeriesConditions(df.rows[i]) /\ df.rows[i].Rating.k = "na"
          /\ ~Contributes(df.rows[i])
    /\ \E i \in 1..Len(df.rows) :
          /\ Contributes(df.rows[i]) /\ df.rows[i].Rating = Num(3, 90)

=============================================================================
